---------------------------- MODULE Spec2Model ----------------------------
(***************************************************************************)
(* AutoBudget ML service (src/ml-service/app/main.py): four stateless      *)
(* request handlers over a list of transactions.                           *)
(*                                                                         *)
(* A behaviour is one request: the initial state holds the request body    *)
(* (data.transactions), and one handler step produces the HTTP status and  *)
(* the response body.                                                      *)
(*                                                                         *)
(* Numbers.  Amounts are integers.  The summarizer, the projector and the  *)
(* forecaster are computed in exact rational arithmetic ([num, den]); a    *)
(* value that the code passes through round(x, 2) is an integer number of  *)
(* hundredths.  The anomaly detector compares a z-score with the           *)
(* representable constants 2 and 3, where the last bit decides, so it is   *)
(* computed in IEEE-754 binary64 with round-to-nearest-even, on a natural  *)
(* number arithmetic of 15-bit limbs.                                      *)
(***************************************************************************)
EXTENDS Integers, Sequences, FiniteSets

VARIABLES request, endpoint, status, body

vars == <<request, endpoint, status, body>>

-----------------------------------------------------------------------------
(* Bounds of the model and the input alphabets.                            *)

MaxTxns == 3

Types == {"income", "expense"}

Categories == {"food", "rent"}

Amounts == {100, 250}

Dates == {[y |-> 2023, m |-> 11, d |-> 20], [y |-> 2023, m |-> 12, d |-> 5]}

\* np.random.normal(0, 0.1) draws, in percent: one standard deviation each way.
NoiseDraws == {-10, 10}

MaxIncomeTxns == 3

IncomeAmounts == {-100, 100, 200, 300}

IncomeDates ==
    {[y |-> 2023, m |-> 11, d |-> 28], [y |-> 2023, m |-> 12, d |-> 28],
     [y |-> 2024, m |-> 1, d |-> 28]}

MaxAnomalyTxns == 7

AnomalyPool ==
    <<[amount |-> 10,  date |-> [y |-> 2024, m |-> 1,  d |-> 15], category |-> "food", type |-> "expense"],
      [amount |-> 11,  date |-> [y |-> 2024, m |-> 1,  d |-> 3],  category |-> "food", type |-> "expense"],
      [amount |-> 100, date |-> [y |-> 2024, m |-> 2,  d |-> 1],  category |-> "food", type |-> "expense"],
      [amount |-> 10,  date |-> [y |-> 2023, m |-> 12, d |-> 31], category |-> "rent", type |-> "expense"],
      [amount |-> 11,  date |-> [y |-> 2024, m |-> 1,  d |-> 15], category |-> "rent", type |-> "expense"],
      [amount |-> 100, date |-> [y |-> 2024, m |-> 1,  d |-> 3],  category |-> "rent", type |-> "expense"],
      [amount |-> 100, date |-> [y |-> 2024, m |-> 1,  d |-> 10], category |-> "food", type |-> "income"]>>

\* The lists of k pool entries whose pool indices, all at least lo, never decrease.
RECURSIVE Picks(_, _)
Picks(k, lo) ==
    IF k = 0 THEN {<<>>}
    ELSE UNION {{<<AnomalyPool[i]>> \o s : s \in Picks(k - 1, i)} : i \in lo..Len(AnomalyPool)}

Transaction(A, D, C, T) == [amount : A, date : D, category : C, type : T]

SeqsUpTo(S, n) == UNION {[1..k -> S] : k \in 0..n}

-----------------------------------------------------------------------------
(* Exact rationals.                                                        *)

Abs(x) == IF x < 0 THEN -x ELSE x

RECURSIVE GCD(_, _)
GCD(a, b) == IF b = 0 THEN a ELSE GCD(b, a % b)

Rat(n, d) ==
    LET g == GCD(Abs(n), Abs(d))
        s == IF d < 0 THEN -1 ELSE 1
    IN  [num |-> s * (n \div g), den |-> s * (d \div g)]

RInt(n) == [num |-> n, den |-> 1]

RAdd(p, q) == Rat(p.num * q.den + q.num * p.den, p.den * q.den)

RSub(p, q) == Rat(p.num * q.den - q.num * p.den, p.den * q.den)

RMul(p, q) == Rat(p.num * q.num, p.den * q.den)

RLe(p, q) == p.num * q.den <= q.num * p.den

RAbs(p) == [num |-> Abs(p.num), den |-> p.den]

\* round(x, 2): the nearest integer number of hundredths, a tie to the even one.
Round2(p) ==
    LET n == 100 * p.num
        f == n \div p.den
        r == n - f * p.den
    IN  IF 2 * r > p.den THEN f + 1
        ELSE IF 2 * r < p.den THEN f
        ELSE IF f % 2 = 0 THEN f ELSE f + 1

\* A number of hundredths as a rational.
Cents(c) == Rat(c, 100)

RECURSIVE SumSeq(_)
SumSeq(s) == IF s = <<>> THEN 0 ELSE Head(s) + SumSeq(Tail(s))

\* Series.mean() of a non-empty sequence of integers.
Mean(s) == Rat(SumSeq(s), Len(s))

-----------------------------------------------------------------------------
(* Natural numbers of any size: little-endian sequences of 15-bit limbs     *)
(* with no leading zero limb, <<>> being 0.                                *)

LimbBits == 15

Base == 2^LimbBits

Limb(a, i) == IF 1 <= i /\ i <= Len(a) THEN a[i] ELSE 0

\* The index of the top limb that is not 0, or 0.
TopLimb(a) ==
    IF \A i \in 1..Len(a) : a[i] = 0 THEN 0
    ELSE CHOOSE i \in 1..Len(a) : a[i] # 0 /\ \A j \in (i + 1)..Len(a) : a[j] = 0

\* a without the zero limbs at its top.
BNorm(a) == SubSeq(a, 1, TopLimb(a))

RECURSIVE BFromInt(_)
BFromInt(n) == IF n = 0 THEN <<>> ELSE <<n % Base>> \o BFromInt(n \div Base)

\* -1, 0 or 1 as a < b, a = b or a > b: the top limb that differs decides.
BCmpAt(a, b, i) == IF a[i] > b[i] THEN 1 ELSE -1

BCmp(a, b) ==
    IF Len(a) > Len(b) THEN 1
    ELSE IF Len(a) < Len(b) THEN -1
    ELSE IF a = b THEN 0
    ELSE BCmpAt(a, b, CHOOSE i \in 1..Len(a) :
                          a[i] # b[i] /\ \A j \in (i + 1)..Len(a) : a[j] = b[j])

\* The carry into limb i of a + b: a limb below overflows and every limb
\* between passes the carry on.
BCarry(a, b, i) ==
    \E j \in 1..(i - 1) :
        /\ Limb(a, j) + Limb(b, j) >= Base
        /\ \A l \in (j + 1)..(i - 1) : Limb(a, l) + Limb(b, l) = Base - 1

BAdd(a, b) ==
    BNorm([i \in 1..((IF Len(a) > Len(b) THEN Len(a) ELSE Len(b)) + 1) |->
              (Limb(a, i) + Limb(b, i) + (IF BCarry(a, b, i) THEN 1 ELSE 0)) % Base])

\* The borrow from limb i of a - b.
BBorrow(a, b, i) ==
    \E j \in 1..(i - 1) :
        /\ a[j] < Limb(b, j)
        /\ \A l \in (j + 1)..(i - 1) : a[l] = Limb(b, l)

\* a - b for a >= b.
BSub(a, b) ==
    BNorm([i \in 1..Len(a) |->
              (a[i] - Limb(b, i) - (IF BBorrow(a, b, i) THEN 1 ELSE 0) + Base) % Base])

\* a * d for one limb d: the low halves of the limb products plus the high
\* halves one limb up.
BMulSmall(a, d) ==
    BAdd([i \in 1..Len(a) |-> (a[i] * d) % Base],
         <<0>> \o [i \in 1..Len(a) |-> (a[i] * d) \div Base])

ShiftLimbs(a, k) == IF a = <<>> THEN a ELSE [i \in 1..k |-> 0] \o a

RECURSIVE BMul(_, _)
BMul(a, b) ==
    IF a = <<>> \/ b = <<>> THEN <<>>
    ELSE BAdd(BMulSmall(a, Head(b)), ShiftLimbs(BMul(a, Tail(b)), 1))

\* a shifted up by w limbs and bits more bits, bits < LimbBits.
BShlBy(a, w, bits) ==
    BNorm([i \in 1..(Len(a) + w + 1) |->
              ((Limb(a, i - w) * 2^bits) % Base)
              + (Limb(a, i - w - 1) \div 2^(LimbBits - bits))])

\* a * 2^k
BShl(a, k) == BShlBy(a, k \div LimbBits, k % LimbBits)

BShrBy(a, w, bits) ==
    BNorm([i \in 1..(Len(a) - w) |->
              (Limb(a, i + w) \div 2^bits)
              + ((Limb(a, i + w + 1) % 2^bits) * 2^(LimbBits - bits))])

\* floor(a / 2^k)
BShr(a, k) == BShrBy(a, k \div LimbBits, k % LimbBits)

\* The number of bits of a limb.
BitLenSmall(n) == Cardinality({k \in 0..(LimbBits - 1) : 2^k <= n})

BBitLen(a) ==
    IF a = <<>> THEN 0 ELSE LimbBits * (Len(a) - 1) + BitLenSmall(a[Len(a)])

BIsOdd(a) == a # <<>> /\ a[1] % 2 = 1

\* The largest digit d with d * b <= cur, counting down from an estimate.
RECURSIVE QFix(_, _, _)
QFix(cur, b, est) ==
    IF BCmp(BMulSmall(b, est), cur) > 0 THEN QFix(cur, b, est - 1) ELSE est

\* floor(cur / b) for cur < b * Base and the top limb of b at least Base/2:
\* the estimate from the top limbs is at most 2 too large.
QDigit(cur, b) ==
    IF BCmp(cur, b) < 0 THEN 0
    ELSE LET n   == Len(b)
             top == Limb(cur, n + 1) * Base + Limb(cur, n)
             est == top \div b[n]
         IN  QFix(cur, b, IF est > Base - 1 THEN Base - 1 ELSE est)

\* One step of long division: the digit d of the running remainder cur, put
\* below the quotient hiq of the limbs above.
BLongDigit(cur, b, hiq, d) ==
    IF d = 0 THEN [q |-> BNorm(<<0>> \o hiq), r |-> cur]
    ELSE [q |-> <<d>> \o hiq, r |-> BSub(cur, BMulSmall(b, d))]

BLongStep(cur, b, hiq) == BLongDigit(cur, b, hiq, QDigit(cur, b))

\* Long division of a by b, b's top limb at least Base/2, from limb i of a
\* down: the limbs above i have left the quotient and remainder hi.
RECURSIVE BLongFrom(_, _, _)
BLongFrom(a, b, i) ==
    IF i > Len(a) - Len(b) + 1
    THEN [q |-> <<>>, r |-> BNorm(SubSeq(a, i, Len(a)))]
    ELSE LET hi == BLongFrom(a, b, i + 1)
         IN  IF hi.r = <<>> /\ a[i] = 0
             THEN [q |-> BNorm(<<0>> \o hi.q), r |-> <<>>]
             ELSE BLongStep(BNorm(<<a[i]>> \o hi.r), b, hi.q)

BLongDiv(a, b) == BLongFrom(a, b, 1)

\* Quotient and remainder of a by b > 0: both are first shifted by s bits to
\* fill b's top limb.
BDivShifted(a, b, s) ==
    LET qr == BLongDiv(BShl(a, s), BShl(b, s))
    IN  [q |-> qr.q, r |-> BShr(qr.r, s)]

BDivMod(a, b) == BDivShifted(a, b, LimbBits - BitLenSmall(b[Len(b)]))

\* Newton's iteration from above: the first x with (x + a/x)/2 >= x, which is
\* the first x with a/x >= x.
RECURSIVE BSqrtFrom(_, _)
BSqrtFrom(a, x) ==
    LET q == BDivMod(a, x).q
    IN  IF BCmp(q, x) >= 0 THEN x ELSE BSqrtFrom(a, BShr(BAdd(x, q), 1))

\* floor(sqrt(a))
BSqrt(a) ==
    IF a = <<>> THEN <<>> ELSE BSqrtFrom(a, BShl(<<1>>, (BBitLen(a) + 1) \div 2))

-----------------------------------------------------------------------------
(* IEEE-754 binary64, round to nearest, ties to even: a float is 0 or      *)
(* (-1)^neg * man * 2^exp with man of exactly 53 bits.  The values met     *)
(* here are far from the exponent range's ends.                            *)

MantissaBits == 53

FZero == [neg |-> FALSE, man |-> <<>>, exp |-> 0]

FIsZero(x) == x.man = <<>> /\ x.exp = 0

\* x / 0.0 (inf or nan).  No handler divides by 0: np.mean and np.std divide by
\* a length, and the z-scores by a std that is not 0.
FInvalid == [neg |-> FALSE, man |-> <<>>, exp |-> 1]

\* Bit k of n, bit 0 the lowest.
BBit(n, k) == (Limb(n, (k \div LimbBits) + 1) \div 2^(k % LimbBits)) % 2 = 1

\* Some bit of n below bit k is set.
BLowBits(n, k) ==
    \/ \E i \in 1..Len(n) : i <= k \div LimbBits /\ n[i] # 0
    \/ Limb(n, (k \div LimbBits) + 1) % 2^(k % LimbBits) # 0

\* The sh bits shifted out of n against one half: up when above, or at a tie
\* when more follows or the kept mantissa q is odd.
RoundsUp(n, sh, sticky, q) ==
    BBit(n, sh - 1) /\ (sticky \/ BLowBits(n, sh - 1) \/ BIsOdd(q))

\* A rounded-up mantissa q2 * 2^e, renormalised when the carry reached bit 54.
FCarry(neg, q2, e) ==
    IF BBitLen(q2) > MantissaBits
    THEN [neg |-> neg, man |-> BShr(q2, 1), exp |-> e + 1]
    ELSE [neg |-> neg, man |-> q2, exp |-> e]

FRoundKept(neg, n, e, sticky, sh, q) ==
    IF RoundsUp(n, sh, sticky, q) THEN FCarry(neg, BAdd(q, <<1>>), e + sh)
    ELSE [neg |-> neg, man |-> q, exp |-> e + sh]

FRoundLen(neg, n, e, sticky, len) ==
    IF len <= MantissaBits
    THEN [neg |-> neg, man |-> BShl(n, MantissaBits - len),
          exp |-> e - (MantissaBits - len)]
    ELSE FRoundKept(neg, n, e, sticky, len - MantissaBits, BShr(n, len - MantissaBits))

\* The float nearest to n * 2^e, or to a value just above it when sticky.
\* A sticky n has at least two bits more than a mantissa.
FRound(neg, n, e, sticky) ==
    IF n = <<>> THEN FZero ELSE FRoundLen(neg, n, e, sticky, BBitLen(n))

\* float(n) for an integer n
FFromInt(n) == FRound(n < 0, BFromInt(IF n < 0 THEN -n ELSE n), 0, FALSE)

FNeg(x) == IF FIsZero(x) THEN x ELSE [x EXCEPT !.neg = ~x.neg]

FAbs(x) == [x EXCEPT !.neg = FALSE]

\* nx * 2^e and ny * 2^e of signs xneg and yneg added; c compares nx with ny.
FAddAligned(xneg, yneg, nx, ny, e, c) ==
    IF xneg = yneg THEN FRound(xneg, BAdd(nx, ny), e, FALSE)
    ELSE IF c = 0 THEN FZero
    ELSE FRound(IF c > 0 THEN xneg ELSE yneg,
                IF c > 0 THEN BSub(nx, ny) ELSE BSub(ny, nx), e, FALSE)

FAddAt(x, y, e, nx, ny) == FAddAligned(x.neg, y.neg, nx, ny, e, BCmp(nx, ny))

FAddExp(x, y, e) == FAddAt(x, y, e, BShl(x.man, x.exp - e), BShl(y.man, y.exp - e))

FAdd(x, y) ==
    IF FIsZero(x) THEN y
    ELSE IF FIsZero(y) THEN x
    ELSE FAddExp(x, y, IF x.exp < y.exp THEN x.exp ELSE y.exp)

FSub(x, y) == FAdd(x, FNeg(y))

FMul(x, y) ==
    IF FIsZero(x) \/ FIsZero(y) THEN FZero
    ELSE FRound(x.neg # y.neg, BMul(x.man, y.man), x.exp + y.exp, FALSE)

FDivRound(neg, e, qr) == FRound(neg, qr.q, e, qr.r # <<>>)

\* x / y: 55 or 56 quotient bits and the remainder as the sticky bit.
FDiv(x, y) ==
    IF FIsZero(y) THEN FInvalid
    ELSE IF FIsZero(x) THEN FZero
    ELSE FDivRound(x.neg # y.neg, x.exp - y.exp - (MantissaBits + 2),
                   BDivMod(BShl(x.man, MantissaBits + 2), y.man))

FSqrtRound(e, n, r) == FRound(FALSE, r, e \div 2, BMul(r, r) # n)

FSqrtOf(e, n) == FSqrtRound(e, n, BSqrt(n))

FSqrtShift(x, k) == FSqrtOf(x.exp - k, BShl(x.man, k))

\* sqrt(x) for x >= 0: 54 root bits of the mantissa shifted to an even exponent.
FSqrt(x) ==
    IF FIsZero(x) THEN FZero
    ELSE FSqrtShift(x, IF (x.exp - (MantissaBits + 2)) % 2 = 0
                       THEN MantissaBits + 2 ELSE MantissaBits + 3)

FSign(x) == IF FIsZero(x) THEN 0 ELSE IF x.neg THEN -1 ELSE 1

\* -1, 0 or 1 as |x| < |y|, |x| = |y| or |x| > |y|, for x and y not 0.
FMagCmp(x, y) ==
    IF x.exp > y.exp THEN 1
    ELSE IF x.exp < y.exp THEN -1
    ELSE BCmp(x.man, y.man)

FCmp(x, y) ==
    IF FSign(x) # FSign(y) THEN (IF FSign(x) > FSign(y) THEN 1 ELSE -1)
    ELSE IF FSign(x) = 0 THEN 0
    ELSE FSign(x) * FMagCmp(x, y)

FGt(x, y) == FCmp(x, y) > 0

\* The loop "res = 0.; for each a: res += a" of a block of fewer than 8 values.
RECURSIVE FSumFrom(_, _)
FSumFrom(res, s) ==
    IF s = <<>> THEN res
    ELSE IF FIsZero(res) THEN FSumFrom(Head(s), Tail(s))
    ELSE FSumFrom(FAdd(res, Head(s)), Tail(s))

\* np.add.reduce over a one-dimensional float64 array of at most 8 values:
\* the first value plus the block sum of the others.
FSum(s) == IF s = <<>> THEN FZero ELSE FAdd(Head(s), FSumFrom(FZero, Tail(s)))

-----------------------------------------------------------------------------
(* Data frames: filter, sort, month periods, group-by.                     *)

DateLt(a, b) ==
    \/ a.y < b.y
    \/ a.y = b.y /\ a.m < b.m
    \/ a.y = b.y /\ a.m = b.m /\ a.d < b.d

RECURSIVE SelectType(_, _)
SelectType(df, t) ==
    IF df = <<>> THEN <<>>
    ELSE IF Head(df).type = t THEN <<Head(df)>> \o SelectType(Tail(df), t)
    ELSE SelectType(Tail(df), t)

\* Insert a row after every row whose date is not later (a stable sort).
RECURSIVE InsertByDate(_, _)
InsertByDate(sorted, row) ==
    IF sorted = <<>> THEN <<row>>
    ELSE IF DateLt(row.date, Head(sorted).date) THEN <<row>> \o sorted
    ELSE <<Head(sorted)>> \o InsertByDate(Tail(sorted), row)

RECURSIVE SortByDate(_)
SortByDate(df) ==
    IF df = <<>> THEN <<>>
    ELSE InsertByDate(SortByDate(SubSeq(df, 1, Len(df) - 1)), df[Len(df)])

\* df = df[df['type'] == t].sort_values('date')
FilterSort(transactions, t) == SortByDate(SelectType(transactions, t))

\* dt.to_period('M')
ToPeriod(date) == [y |-> date.y, m |-> date.m]

PeriodLt(p, q) == p.y < q.y \/ (p.y = q.y /\ p.m < q.m)

\* The month advanced within the same year, the year never carried.
AddMonthsSameYear(p, i) == [y |-> p.y, m |-> ((p.m - 1 + i) % 12) + 1]

\* Period + i: i months later, across the year boundary.
AddMonths(p, i) ==
    LET k == p.y * 12 + (p.m - 1) + i
    IN  [y |-> k \div 12, m |-> (k % 12) + 1]

MonthsOf(df) == {ToPeriod(df[i].date) : i \in 1..Len(df)}

CategoriesOf(df) == {df[i].category : i \in 1..Len(df)}

\* The periods of a set, ascending (group-by sorts its keys).
RECURSIVE SortedPeriods(_)
SortedPeriods(S) ==
    IF S = {} THEN <<>>
    ELSE LET lo == CHOOSE p \in S : \A q \in S : ~PeriodLt(q, p)
         IN  <<lo>> \o SortedPeriods(S \ {lo})

\* df['month'].max()
MaxPeriod(df) == CHOOSE p \in MonthsOf(df) : \A q \in MonthsOf(df) : ~PeriodLt(p, q)

RECURSIVE SelectMonth(_, _)
SelectMonth(df, month) ==
    IF df = <<>> THEN <<>>
    ELSE IF ToPeriod(Head(df).date) = month
    THEN <<Head(df)>> \o SelectMonth(Tail(df), month)
    ELSE SelectMonth(Tail(df), month)

\* df[df['category'] == category]
RECURSIVE SelectCategory(_, _)
SelectCategory(df, category) ==
    IF df = <<>> THEN <<>>
    ELSE IF Head(df).category = category
    THEN <<Head(df)>> \o SelectCategory(Tail(df), category)
    ELSE SelectCategory(Tail(df), category)

\* df['amount'].values
AmountsOf(df) == [i \in 1..Len(df) |-> df[i].amount]

\* The per-month transaction counts in place of the sums, count() for sum().
MonthlyCounts(df) ==
    LET months == SortedPeriods(MonthsOf(df))
    IN  [k \in 1..Len(months) |-> Len(SelectMonth(df, months[k]))]

\* df.groupby('month')['amount'].sum(): the per-month sums, by ascending month.
MonthlySums(df) ==
    LET months == SortedPeriods(MonthsOf(df))
    IN  [k \in 1..Len(months) |-> SumSeq(AmountsOf(SelectMonth(df, months[k])))]

\* df.groupby('category')['amount'].mean()
CategoryAvg(df) ==
    [c \in CategoriesOf(df) |-> Mean(AmountsOf(SelectCategory(df, c)))]

\* Series.tail(k)
Tail3(s) == IF Len(s) <= 3 THEN s ELSE SubSeq(s, Len(s) - 2, Len(s))

-----------------------------------------------------------------------------
(* Responses and the handlers' exception flow.                             *)

NoBody == [kind |-> "none"]

\* raise HTTPException(status_code=400, ...) inside the handler's try block.
HTTPException(code, detail) == [raised |-> TRUE, code |-> code, detail |-> detail]

Return(b) == [raised |-> FALSE, code |-> 200, body |-> b]

\* except Exception as e: raise HTTPException(status_code=500, detail=str(e)).
\* HTTPException is an Exception, so the handler's own 400 is caught too.
\* str(e) of an HTTPException names its status code and its detail.
ExceptException(outcome) ==
    IF outcome.raised
    THEN HTTPException(500, <<outcome.code, ": ", outcome.detail>>)
    ELSE outcome

StatusOf(outcome) == outcome.code

BodyOf(outcome) ==
    IF outcome.raised THEN [kind |-> "error", detail |-> outcome.detail]
    ELSE outcome.body

Respond(name, outcome) ==
    /\ endpoint = "none"
    /\ endpoint' = name
    /\ status' = StatusOf(outcome)
    /\ body' = BodyOf(outcome)
    /\ UNCHANGED request

-----------------------------------------------------------------------------
(* POST /api/ml/train-spending-model                                       *)

InsufficientForTraining(df) == Len(df) < 3

TooFewMonths(monthly) == Len(monthly) < 2

TrainTry(transactions) ==
    IF transactions = <<>>
    THEN HTTPException(400, "No transaction data provided")
    ELSE LET df == FilterSort(transactions, "expense")
             monthly_spending == MonthlySums(df)
         IN  IF InsufficientForTraining(df)
             THEN Return([kind |-> "prediction", predictions |-> <<>>,
                          model_accuracy |-> "None",
                          message |-> "Insufficient data for training. Need at least 3 transactions."])
             ELSE IF TooFewMonths(monthly_spending)
             THEN Return([kind |-> "prediction", predictions |-> <<>>,
                          model_accuracy |-> "None",
                          message |-> "Need at least 2 months of data for training"])
             ELSE Return([kind |-> "prediction",
                          predictions |->
                              <<[average_monthly_spending |-> Mean(monthly_spending),
                                 recent_trend |-> Mean(Tail3(monthly_spending)),
                                 prediction_confidence |-> Rat(75, 100)]>>,
                          model_accuracy |-> Rat(75, 100),
                          message |-> "Model trained successfully"])

train_spending_model == Respond("train_spending_model", ExceptException(TrainTry(request)))

-----------------------------------------------------------------------------
(* POST /api/ml/predict-expenses                                           *)

\* The minimum taken as 2 transactions.
InsufficientBelowTwo(df) == Len(df) < 2

InsufficientForPredictions(df) == Len(df) < 3

\* float(avg_amount * (1 + np.random.normal(0, 0.1))), the draw in percent.
PredictedAmount(avg_amount, eps) == RMul(avg_amount, Rat(100 + eps, 100))

RECURSIVE RSumOver(_, _)
RSumOver(f, S) ==
    IF S = {} THEN RInt(0)
    ELSE LET c == CHOOSE x \in S : TRUE
         IN  RAdd(f[c], RSumOver(f, S \ {c}))

\* One record of the loop "for i in range(1, 4)"; eps[c] is the draw for category c.
MonthPrediction(last_month, category_avg, i, eps) ==
    LET month_predictions ==
            [c \in DOMAIN category_avg |-> PredictedAmount(category_avg[c], eps[c])]
        total == RSumOver(month_predictions, DOMAIN month_predictions)
    IN  [month |-> AddMonths(last_month, i),
         total_predicted_expenses |-> Round2(total),
         by_category |-> [c \in DOMAIN category_avg |-> Round2(month_predictions[c])]]

PredictTry(transactions, noise) ==
    IF transactions = <<>>
    THEN HTTPException(400, "No transaction data provided")
    ELSE LET df == FilterSort(transactions, "expense")
         IN  IF InsufficientForPredictions(df)
             THEN Return([kind |-> "prediction", predictions |-> <<>>,
                          model_accuracy |-> "None",
                          message |-> "Insufficient data for predictions. Need at least 3 transactions."])
             ELSE Return([kind |-> "prediction",
                          predictions |->
                              [i \in 1..3 |->
                                  MonthPrediction(MaxPeriod(df), CategoryAvg(df), i, noise[i])],
                          model_accuracy |-> Rat(80, 100),
                          message |-> "Predictions generated successfully"])

\* The draws the request consumes: one per future month and observed category.
NoiseFor(transactions) ==
    [1..3 -> [CategoriesOf(SelectType(transactions, "expense")) -> NoiseDraws]]

predict_expenses ==
    \E noise \in NoiseFor(request) :
        Respond("predict_expenses", ExceptException(PredictTry(request, noise)))

-----------------------------------------------------------------------------
(* POST /api/ml/detect-anomalies                                           *)

TooFewForAnomalies(df) == Len(df) < 5

CategoryTooSmall(category_df) == Len(category_df) < 3

\* df['category'].unique(): the categories in order of first appearance.
RECURSIVE Unique(_, _)
Unique(df, seen) ==
    IF df = <<>> THEN <<>>
    ELSE IF Head(df).category \in seen THEN Unique(Tail(df), seen)
    ELSE <<Head(df).category>> \o Unique(Tail(df), seen \cup {Head(df).category})

\* category_df['amount'].values, as float64
FloatAmounts(category_df) ==
    [i \in 1..Len(category_df) |-> FFromInt(category_df[i].amount)]

\* np.mean(amounts)
NpMean(amounts) == FDiv(FSum(amounts), FFromInt(Len(amounts)))

FSquare(x) == FMul(x, x)

\* x = arr - arrmean; x = x * x
SquaredDeviations(arr, arrmean) ==
    [i \in 1..Len(arr) |-> FSquare(FSub(arr[i], arrmean))]

\* np.std(amounts): the square root of the mean squared deviation (ddof = 0).
NpStd(amounts) ==
    FSqrt(FDiv(FSum(SquaredDeviations(amounts, NpMean(amounts))),
               FFromInt(Len(amounts))))

\* np.abs((amounts - mean) / std)
ZScores(amounts, mean, std) ==
    [i \in 1..Len(amounts) |-> FAbs(FDiv(FSub(amounts[i], mean), std))]

\* The threshold taken inclusively, z_score >= 2.
IsAnomalousFromTwo(z_score) == FCmp(z_score, FFromInt(2)) >= 0

\* if z_score > 2
IsAnomalous(z_score) == FGt(z_score, FFromInt(2))

\* "high" if z_score > 3 else "medium"
Severity(z_score) == IF FGt(z_score, FFromInt(3)) THEN "high" ELSE "medium"

AnomalyRecord(transaction, z_score, mean, std) ==
    [date |-> transaction.date,
     amount |-> transaction.amount,
     category |-> transaction.category,
     z_score |-> z_score,
     expected_range |-> [min |-> FSub(mean, FMul(FFromInt(2), std)),
                         max |-> FAdd(mean, FMul(FFromInt(2), std))],
     severity |-> Severity(z_score)]

\* The loop "for idx, z_score in enumerate(z_scores)" from idx on.
RECURSIVE FlagFrom(_, _, _, _, _)
FlagFrom(category_df, z_scores, mean, std, idx) ==
    IF idx > Len(z_scores) THEN <<>>
    ELSE (IF IsAnomalous(z_scores[idx])
          THEN <<AnomalyRecord(category_df[idx], z_scores[idx], mean, std)>>
          ELSE <<>>)
         \o FlagFrom(category_df, z_scores, mean, std, idx + 1)

\* if std == 0: continue, then the z-scores and the loop over them.
ScanCategory(category_df, amounts, mean, std) ==
    IF FIsZero(std) THEN <<>>
    ELSE FlagFrom(category_df, ZScores(amounts, mean, std), mean, std, 1)

MeanAndStd(category_df, amounts) ==
    ScanCategory(category_df, amounts, NpMean(amounts), NpStd(amounts))

CategoryFrame(category_df) ==
    IF CategoryTooSmall(category_df) THEN <<>>
    ELSE MeanAndStd(category_df, FloatAmounts(category_df))

\* One pass of the loop "for category in df['category'].unique()".
CategoryAnomalies(df, category) == CategoryFrame(SelectCategory(df, category))

RECURSIVE AnomaliesOver(_, _)
AnomaliesOver(df, categories) ==
    IF categories = <<>> THEN <<>>
    ELSE CategoryAnomalies(df, Head(categories)) \o AnomaliesOver(df, Tail(categories))

AnomalyResponse(anomalies) ==
    Return([kind |-> "anomaly", anomalies |-> anomalies,
            total_anomalies |-> Len(anomalies),
            message |-> <<"Detected", Len(anomalies), "anomalous transactions">>])

DetectIn(df) ==
    IF TooFewForAnomalies(df)
    THEN Return([kind |-> "anomaly", anomalies |-> <<>>, total_anomalies |-> 0,
                 message |-> <<"Need at least 5 transactions for anomaly detection">>])
    ELSE AnomalyResponse(AnomaliesOver(df, Unique(df, {})))

DetectTry(transactions) ==
    IF transactions = <<>>
    THEN HTTPException(400, "No transaction data provided")
    ELSE DetectIn(FilterSort(transactions, "expense"))

detect_anomalies == Respond("detect_anomalies", ExceptException(DetectTry(request)))

-----------------------------------------------------------------------------
(* POST /api/ml/forecast-income                                            *)

InsufficientIncome(df) == Len(df) < 3

TooFewIncomeMonths(monthly) == Len(monthly) < 2

\* np.arange(n) as a sequence: 0, 1, ..., n-1
Arange(n) == [k \in 1..n |-> k - 1]

Products(x, y) == [k \in 1..Len(x) |-> x[k] * y[k]]

\* np.polyfit(x, y, 1)[0]: the least-squares slope of y against x.
PolyfitSlope(x, y) ==
    LET n == Len(x)
    IN  Rat(n * SumSeq(Products(x, y)) - SumSeq(x) * SumSeq(y),
            n * SumSeq(Products(x, x)) - SumSeq(x) * SumSeq(x))

\* The trend taken at index n + i - 1, the first month after the data.
PredictedIncomeNextIndex(avg_income, trend, n, i) ==
    RAdd(avg_income, RMul(trend, RInt(n + i - 1)))

\* avg_income + (trend * (len(incomes) + i))
PredictedIncome(avg_income, trend, n, i) == RAdd(avg_income, RMul(trend, RInt(n + i)))

\* The band's whole width, 20% of the mean, taken as the margin.
ConfidenceMarginWidth(avg_income) == RMul(avg_income, Rat(2, 10))

\* avg_income * 0.1
ConfidenceMargin(avg_income) == RMul(avg_income, Rat(1, 10))

\* One record of the loop "for i in range(1, 4)".
ForecastPoint(last_month, incomes, i) ==
    LET avg_income        == Mean(incomes)
        trend             == PolyfitSlope(Arange(Len(incomes)), incomes)
        predicted_income  == PredictedIncome(avg_income, trend, Len(incomes), i)
        confidence_margin == ConfidenceMargin(avg_income)
    IN  [month |-> AddMonths(last_month, i),
         predicted_income |-> Round2(predicted_income),
         confidence_lower |-> Round2(RSub(predicted_income, confidence_margin)),
         confidence_upper |-> Round2(RAdd(predicted_income, confidence_margin))]

ForecastTry(transactions) ==
    IF transactions = <<>>
    THEN HTTPException(400, "No transaction data provided")
    ELSE LET df == FilterSort(transactions, "income")
             monthly_income == MonthlySums(df)
         IN  IF InsufficientIncome(df)
             THEN Return([kind |-> "forecast", forecast |-> <<>>,
                          message |-> "Insufficient income data for forecasting. Need at least 3 income transactions."])
             ELSE IF TooFewIncomeMonths(monthly_income)
             THEN Return([kind |-> "forecast", forecast |-> <<>>,
                          message |-> "Need at least 2 months of income data"])
             ELSE Return([kind |-> "forecast",
                          forecast |->
                              [i \in 1..3 |-> ForecastPoint(MaxPeriod(df), monthly_income, i)],
                          message |-> "Income forecast generated successfully"])

forecast_income == Respond("forecast_income", ExceptException(ForecastTry(request)))

-----------------------------------------------------------------------------
(* Specifications: one request, drawn from a bounded set, and its answer.  *)

NoResponse ==
    /\ endpoint = "none"
    /\ status = 0
    /\ body = NoBody

\* Any list of at most MaxTxns transactions over the small alphabet.
Init ==
    /\ request \in SeqsUpTo(Transaction(Amounts, Dates, Categories, Types), MaxTxns)
    /\ NoResponse

Next ==
    \/ train_spending_model
    \/ predict_expenses
    \/ detect_anomalies
    \/ forecast_income

Spec == Init /\ [][Next]_vars

\* Income forecasting: three months around a year's end, amounts of either sign.
InitForecast ==
    /\ request \in SeqsUpTo(Transaction(IncomeAmounts, IncomeDates, {"salary"}, Types),
                            MaxIncomeTxns)
    /\ NoResponse

NextForecast == forecast_income

SpecForecast == InitForecast /\ [][NextForecast]_vars

\* Anomaly detection: the lists of at most MaxAnomalyTxns transactions taken
\* from AnomalyPool in the pool's order, each any number of times.
InitAnomalies ==
    /\ request \in UNION {Picks(k, 1) : k \in 0..MaxAnomalyTxns}
    /\ NoResponse

NextAnomalies == detect_anomalies

SpecAnomalies == InitAnomalies /\ [][NextAnomalies]_vars

-----------------------------------------------------------------------------
(* The request as the properties read it: index sets, months and sums      *)
(* taken from the request itself.                                          *)

OfType(t) == {i \in 1..Len(request) : request[i].type = t}

ExpenseIdx == OfType("expense")

IncomeIdx == OfType("income")

MonthIndex(p) == 12 * p.y + (p.m - 1)

MonthIndexOf(i) == 12 * request[i].date.y + (request[i].date.m - 1)

MonthsAmong(I) == {MonthIndexOf(i) : i \in I}

CategoriesAmong(I) == {request[i].category : i \in I}

LatestMonth(I) == CHOOSE m \in MonthsAmong(I) : \A k \in MonthsAmong(I) : k <= m

RECURSIVE AmountSum(_)
AmountSum(I) ==
    IF I = {} THEN 0
    ELSE LET i == CHOOSE j \in I : TRUE
         IN  request[i].amount + AmountSum(I \ {i})

RECURSIVE SquareSum(_)
SquareSum(I) ==
    IF I = {} THEN 0
    ELSE LET i == CHOOSE j \in I : TRUE
         IN  request[i].amount * request[i].amount + SquareSum(I \ {i})

Answered(name) == endpoint = name

-----------------------------------------------------------------------------
(* C1: an empty transaction list.                                          *)

\* C1: each of the four operations answers an empty transaction list with a
\* client error (a 4xx status), never with a shortfall response and never
\* with a server error.
C1_EmptyListIsClientError ==
    (endpoint # "none" /\ request = <<>>) => (status >= 400 /\ status < 500)

-----------------------------------------------------------------------------
(* C2: the amounts 10, 10, 10, 10, 100 in the only expense category.       *)

AmountCount(I, a) == Cardinality({i \in I : request[i].amount = a})

FourTensAndAHundred ==
    /\ Cardinality(ExpenseIdx) = 5
    /\ Cardinality(CategoriesAmong(ExpenseIdx)) = 1
    /\ AmountCount(ExpenseIdx, 10) = 4
    /\ AmountCount(ExpenseIdx, 100) = 1

\* The z-scores the handler computes for the expenses of the request, all in
\* one category, in the order of the sorted frame.
OnlyCategoryZScores ==
    ZScores(FloatAmounts(FilterSort(request, "expense")),
            NpMean(FloatAmounts(FilterSort(request, "expense"))),
            NpStd(FloatAmounts(FilterSort(request, "expense"))))

ZScoreOfAmount(a) ==
    OnlyCategoryZScores[CHOOSE k \in 1..Len(FilterSort(request, "expense")) :
                            FilterSort(request, "expense")[k].amount = a]

\* C2 as stated: detect-anomalies, given expenses whose only category has the
\* amounts 10, 10, 10, 10, 100, returns the transaction of amount 100 as the
\* one anomaly, with a z-score strictly greater than 2.
C2_HundredIsFlagged ==
    (Answered("detect_anomalies") /\ FourTensAndAHundred)
        => /\ status = 200
           /\ body.total_anomalies = 1
           /\ Len(body.anomalies) = 1
           /\ body.anomalies[1].amount = 100
           /\ FGt(body.anomalies[1].z_score, FFromInt(2))

\* C2 amended: for those amounts the z-score of the transaction of amount 100
\* is exactly 2 (mean 28, standard deviation 36), which is not strictly
\* greater than 2: the response holds no anomaly and total_anomalies = 0.
C2_HundredIsExactlyTwoSigma ==
    (Answered("detect_anomalies") /\ FourTensAndAHundred)
        => /\ status = 200
           /\ FCmp(ZScoreOfAmount(100), FFromInt(2)) = 0
           /\ body.anomalies = <<>>
           /\ body.total_anomalies = 0

C2_Witness ==
    /\ Answered("detect_anomalies")
    /\ FourTensAndAHundred
    /\ status = 200
    /\ body.message = <<"Detected", 0, "anomalous transactions">>

-----------------------------------------------------------------------------
(* C3: the average of the monthly sums.                                    *)

\* The one summary record, whose average times the number of months is the
\* sum of all expense amounts.
OneRecordWithMonthlyMean ==
    /\ status = 200
    /\ Len(body.predictions) = 1
    /\ RMul(body.predictions[1].average_monthly_spending,
            RInt(Cardinality(MonthsAmong(ExpenseIdx))))
           = RInt(AmountSum(ExpenseIdx))

\* C3 as stated: for every non-empty set of expenses over at least 2 calendar
\* months, also one of exactly 2 expenses, summarize-spending returns exactly
\* one record whose average_monthly_spending is the mean of the monthly sums.
C3_AnyExpensesOverTwoMonths ==
    (/\ Answered("train_spending_model")
     /\ ExpenseIdx # {}
     /\ Cardinality(MonthsAmong(ExpenseIdx)) >= 2)
        => OneRecordWithMonthlyMean

\* C3 amended: for every set of at least 3 expenses over at least 2 calendar
\* months, summarize-spending returns exactly one record whose
\* average_monthly_spending is the mean of the monthly sums.
C3_ThreeExpensesOverTwoMonths ==
    (/\ Answered("train_spending_model")
     /\ Cardinality(ExpenseIdx) >= 3
     /\ Cardinality(MonthsAmong(ExpenseIdx)) >= 2)
        => OneRecordWithMonthlyMean

C3_Witness ==
    /\ Answered("train_spending_model")
    /\ Cardinality(ExpenseIdx) = 3
    /\ Cardinality(MonthsAmong(ExpenseIdx)) = 2
    /\ \E i \in ExpenseIdx : request[i].amount = 250
    /\ \E i \in ExpenseIdx : request[i].amount = 100
    /\ Len(body.predictions) = 1

-----------------------------------------------------------------------------
(* C4: fewer than 3 expenses.                                              *)

\* C4: for every non-empty transaction list with fewer than 3 expenses,
\* summarize-spending and project-expenses each answer with status 200, an
\* empty predictions list and a message, and with no error.
C4_FewExpensesIsShortfall ==
    (/\ Answered("train_spending_model") \/ Answered("predict_expenses")
     /\ request # <<>>
     /\ Cardinality(ExpenseIdx) < 3)
        => /\ status = 200
           /\ body.kind = "prediction"
           /\ body.predictions = <<>>
           /\ body.message # ""

C4_Witness ==
    /\ Answered("predict_expenses")
    /\ Cardinality(ExpenseIdx) = 2
    /\ Len(request) = 3
    /\ status = 200
    /\ body.predictions = <<>>

-----------------------------------------------------------------------------
(* C7: the three projected months and their categories.                    *)

\* C7: project-expenses, given at least 3 expenses, returns exactly 3
\* records, for the 3 calendar months after the latest expense month, across
\* a year's end, each with the expense categories as its by_category keys,
\* whatever the noise drawn.
C7_NextThreeMonthsAllCategories ==
    (Answered("predict_expenses") /\ Cardinality(ExpenseIdx) >= 3)
        => /\ status = 200
           /\ Len(body.predictions) = 3
           /\ \A i \in 1..3 :
                /\ body.predictions[i].month.m \in 1..12
                /\ MonthIndex(body.predictions[i].month) = LatestMonth(ExpenseIdx) + i
                /\ DOMAIN body.predictions[i].by_category = CategoriesAmong(ExpenseIdx)

C7_Witness ==
    /\ Answered("predict_expenses")
    /\ Cardinality(ExpenseIdx) = 3
    /\ Cardinality(CategoriesAmong(ExpenseIdx)) = 2
    /\ Len(body.predictions) = 3
    /\ body.predictions[1].month = [y |-> 2024, m |-> 1]
    /\ body.predictions[3].month = [y |-> 2024, m |-> 3]

-----------------------------------------------------------------------------
(* The income forecast as the properties read it: the monthly sums by       *)
(* ascending month, their mean and their least-squares slope.               *)

IncomeMonthCount == Cardinality(MonthsAmong(IncomeIdx))

\* The month with k income months before it, k = 0 the earliest.
IncomeMonth(k) ==
    CHOOSE m \in MonthsAmong(IncomeIdx) :
        Cardinality({x \in MonthsAmong(IncomeIdx) : x < m}) = k

MonthlyIncome(k) == AmountSum({i \in IncomeIdx : MonthIndexOf(i) = IncomeMonth(k)})

MeanIncome == Rat(AmountSum(IncomeIdx), IncomeMonthCount)

\* n times the deviation of index k from the mean index of 0..n-1.
IndexDeviation(k) ==
    IncomeMonthCount * k - ((IncomeMonthCount * (IncomeMonthCount - 1)) \div 2)

RECURSIVE CrossSum(_)
CrossSum(k) ==
    IF k < 0 THEN 0
    ELSE IndexDeviation(k) * (IncomeMonthCount * MonthlyIncome(k) - AmountSum(IncomeIdx))
         + CrossSum(k - 1)

RECURSIVE IndexSquareSum(_)
IndexSquareSum(k) ==
    IF k < 0 THEN 0 ELSE IndexDeviation(k) * IndexDeviation(k) + IndexSquareSum(k - 1)

\* Covariance of index and sum over the variance of the index.
OLSSlope == Rat(CrossSum(IncomeMonthCount - 1), IndexSquareSum(IncomeMonthCount - 1))

\* mean + slope * (n + i)
ExactPrediction(i) == RAdd(MeanIncome, RMul(OLSSlope, RInt(IncomeMonthCount + i)))

Within(p, q, tolerance) == RLe(RAbs(RSub(p, q)), tolerance)

ForecastGiven ==
    /\ Answered("forecast_income")
    /\ Cardinality(IncomeIdx) >= 3
    /\ IncomeMonthCount >= 2

MonthlyIncomeIs(sums) ==
    /\ IncomeMonthCount = Len(sums)
    /\ \A k \in 1..Len(sums) : MonthlyIncome(k - 1) = sums[k]

-----------------------------------------------------------------------------
(* C5: the forecast formula.                                               *)

\* C5 as stated: forecast-income, given at least 3 income transactions over
\* n >= 2 months, returns exactly 3 points whose i-th predicted_income equals
\* mean + slope * (n + i), slope the least-squares slope of the monthly sums
\* against 0..n-1.
C5_PredictionIsExact ==
    ForecastGiven
        => /\ status = 200
           /\ Len(body.forecast) = 3
           /\ \A i \in 1..3 :
                Cents(body.forecast[i].predicted_income) = ExactPrediction(i)

\* C5 amended: the 3 points' predicted_income is mean + slope * (n + i)
\* rounded to 2 decimal places, so within 0.005 of it; for the monthly sums
\* 100, 200, 300 the slope is 100 and the predictions are 600, 700, 800.
C5_PredictionIsRounded ==
    ForecastGiven
        => /\ status = 200
           /\ Len(body.forecast) = 3
           /\ \A i \in 1..3 :
                Within(Cents(body.forecast[i].predicted_income), ExactPrediction(i),
                       Rat(1, 200))
           /\ MonthlyIncomeIs(<<100, 200, 300>>)
                => /\ OLSSlope = RInt(100)
                   /\ \A i \in 1..3 :
                        body.forecast[i].predicted_income = 100 * (500 + 100 * i)

C5_Witness ==
    /\ ForecastGiven
    /\ MonthlyIncomeIs(<<100, 200, 300>>)
    /\ Len(body.forecast) = 3
    /\ body.forecast[3].predicted_income = 80000

-----------------------------------------------------------------------------
(* C6: the confidence band.                                                *)

UpperMargin(i) ==
    Cents(body.forecast[i].confidence_upper - body.forecast[i].predicted_income)

LowerMargin(i) ==
    Cents(body.forecast[i].predicted_income - body.forecast[i].confidence_lower)

BandWidth(i) ==
    Cents(body.forecast[i].confidence_upper - body.forecast[i].confidence_lower)

-----------------------------------------------------------------------------
(* C9: the order of the band.                                              *)

\* C9: in every forecast point that forecast-income returns,
\* confidence_lower <= predicted_income <= confidence_upper, also for
\* negative income amounts.
C9_BandIsOrdered ==
    (Answered("forecast_income") /\ status = 200)
        => \A i \in 1..Len(body.forecast) :
             /\ body.forecast[i].confidence_lower <= body.forecast[i].predicted_income
             /\ body.forecast[i].predicted_income <= body.forecast[i].confidence_upper

-----------------------------------------------------------------------------
(* C8 and C10: the anomalies in exact arithmetic.  For a category of n      *)
(* amounts with sum S and sum of squares Q, n^2 times the population        *)
(* variance is n * Q - S^2 and n times the deviation of x is n * x - S.     *)

CategoryIdx(c) == {i \in ExpenseIdx : request[i].category = c}

\* n^2 * variance of the category of transaction i
ScaledVariance(i) ==
    Cardinality(CategoryIdx(request[i].category))
        * SquareSum(CategoryIdx(request[i].category))
    - AmountSum(CategoryIdx(request[i].category))
        * AmountSum(CategoryIdx(request[i].category))

\* (n * (x - mean))^2 for transaction i
ScaledSquareDeviation(i) ==
    (Cardinality(CategoryIdx(request[i].category)) * request[i].amount
        - AmountSum(CategoryIdx(request[i].category))) ^ 2

\* z = |amount - mean| / std is strictly greater than k.
ZExceeds(i, k) == ScaledSquareDeviation(i) > k * k * ScaledVariance(i)

MustBeFlagged(i) ==
    /\ Cardinality(CategoryIdx(request[i].category)) >= 3
    /\ ScaledVariance(i) # 0
    /\ ZExceeds(i, 2)

IsRecordOf(record, i) ==
    /\ record.date = request[i].date
    /\ record.amount = request[i].amount
    /\ record.category = request[i].category

\* C8: with at least 5 expenses, an expense is among the returned anomalies
\* if and only if its category has at least 3 expenses, a non-zero standard
\* deviation, and z > 2 for it; a record's severity is high if its z > 3
\* and medium otherwise.
C8_FlaggedIffBeyondTwoSigma ==
    (Answered("detect_anomalies") /\ Cardinality(ExpenseIdx) >= 5)
        => /\ status = 200
           /\ \A i \in ExpenseIdx :
                (\E k \in 1..Len(body.anomalies) : IsRecordOf(body.anomalies[k], i))
                    <=> MustBeFlagged(i)
           /\ \A k \in 1..Len(body.anomalies) : \A i \in ExpenseIdx :
                IsRecordOf(body.anomalies[k], i)
                    => body.anomalies[k].severity
                           = (IF ZExceeds(i, 3) THEN "high" ELSE "medium")

\* C10: a category with 5 or fewer expenses never contributes an anomaly
\* record, whatever its amounts.
C10_NoFlagUpToFive ==
    (Answered("detect_anomalies") /\ status = 200)
        => \A k \in 1..Len(body.anomalies) :
             Cardinality(CategoryIdx(body.anomalies[k].category)) > 5

=============================================================================
